---- MODULE Spec2Model ----
(***************************************************************************)
(* Model of the KG perturbation pipeline of kg_perturbator:                *)
(*   conversion.py   json_to_networkx / networkx_to_json                   *)
(*   utils.py        the four mutation operators and reassign_entity_ids   *)
(*   perturbator.py  KGPerturbator.perturb and the three content passes    *)
(*   cli.py          perturb_kg_from_files (seeding, then perturb)          *)
(*   perturb_and_generate_alignment.py, kg_to_entity_alignment_files.py    *)
(*                   perturb_kg and the emission of the alignment files     *)
(* The graph G is a networkx MultiDiGraph: an insertion-ordered list of    *)
(* nodes, each with its attribute dict and its insertion-ordered successor *)
(* adjacency (target -> key -> edge data).                                 *)
(***************************************************************************)
EXTENDS Integers, Sequences, FiniteSets, TLC

\* ------------------------------------------------------------------ bounds
MaxN == 3          \* entities of the input KG: e1..eN, N <= MaxN
MaxRel == 1        \* relations of the input KG
MaxCount == 2      \* remove_entities, add_entities, remove_edges are 0..MaxCount
MaxAddEdges == 1   \* add_edges is 0..MaxAddEdges
MaxRelOps == 2     \* relations of the input KG where the operators are studied
MaxAddEdgesOps == 2 \* add_edges where add-edges is studied: 0..MaxAddEdgesOps

NoSeed == "NoSeed"                 \* "seed" not in config
Seeds == {"seed"}                  \* the seed values a configuration may carry
AlignSeed == "42"                  \* random.seed(42) of create_alignment_files
None == "None"                     \* Python None
NoKey == -1                        \* add_edge called without a key

VARIABLES
    kg_json,            \* the input KG handed to perturb
    config,             \* the perturbation configuration
    llm_config,         \* the LLM configuration and the collaborator's behaviour
    pc,                 \* position of the run in perturb_kg_from_files / perturb
    run,                \* 1 for the first pipeline run, 2 for the re-run
    G,                  \* the networkx graph of perturb
    n_nodes,            \* perturb's n_nodes
    removed_entities,   \* perturb's removed_entities set
    added_entities,     \* perturb's added_entities set
    entity_mapping,     \* the ordered dict returned by reassign_entity_ids
    perturbed_json,     \* networkx_to_json(G), None until produced
    rngSeed,            \* seed the global random state was last seeded with
    rngPos,             \* number of draws consumed since that seeding
    streams,            \* per seed: the draws its stream is known to produce
    minted,             \* history: ids minted by add_random_entities, in order
    addedEdges,         \* history: (src, tgt, key) of edges made by add_random_edges
    preNodes,           \* history: list(G.nodes()) when reassignment started
    edgesBefore,        \* history: len(list(G.edges)) when remove_random_edges started
    trace,              \* history: the steps executed by the current run
    prev,               \* history: result of the first run, None before it ends
    written,            \* the files written so far, by name
    alignment,          \* the pairs written to ref_ent_ids, ref_pairs, sup_pairs
    answers             \* history: what the collaborator did per item of the last pass

vars == <<kg_json, config, llm_config, pc, run, G, n_nodes, removed_entities,
          added_entities, entity_mapping, perturbed_json, rngSeed, rngPos,
          streams, minted, addedEdges, preNodes, edgesBefore, trace, prev,
          written, alignment, answers>>

\* ------------------------------------------------------------ Python basics
Min(a, b) == IF a <= b THEN a ELSE b

Max(a, b) == IF a >= b THEN a ELSE b

Range(s) == {s[i] : i \in DOMAIN s}

EmptyDict == [k \in {} |-> None]

\* dict.update: d with the entries of kw written over it
Update(d, kw) ==
    [k \in (DOMAIN d) \cup (DOMAIN kw) |-> IF k \in DOMAIN kw THEN kw[k] ELSE d[k]]

\* {k: v for k, v in d.items() if k not in drop}
Without(d, drop) == [k \in (DOMAIN d) \ drop |-> d[k]]

\* d.get(k, default)
Get(d, k, default) == IF k \in DOMAIN d THEN d[k] ELSE default

\* attribute values that may be scalar or list-valued carry their Python type
Str(s) == [kind |-> "str", v |-> s]

List(l) == [kind |-> "list", v |-> l]

\* f"e{k}" and f"rand_{i}"
EId(k) == "e" \o ToString(k)

RandId(i) == "rand_" \o ToString(i)

RECURSIVE Flatten(_)
Flatten(ss) == IF ss = <<>> THEN <<>> ELSE Head(ss) \o Flatten(Tail(ss))

\* ------------------------------------------------- networkx.MultiDiGraph
\* A graph is a sequence of nodes [id, attrs, adj]; adj is the node's
\* successor dict, a sequence of [tgt, kd]; kd is the key dict of the
\* parallel edges to tgt, a sequence of [key, data].
EmptyGraph == <<>>

\* list(G.nodes)
NodeIds(g) == [i \in DOMAIN g |-> g[i].id]

\* n in G
HasNode(g, n) == \E i \in DOMAIN g : g[i].id = n

NodeIndex(g, n) == CHOOSE i \in DOMAIN g : g[i].id = n

\* G.nodes[n]
NodeAttrs(g, n) == g[NodeIndex(g, n)].attrs

\* G.add_node(n, **attrs): a new node is appended, an existing one updated
add_node(g, n, attrs) ==
    IF HasNode(g, n)
    THEN [g EXCEPT ![NodeIndex(g, n)].attrs = Update(@, attrs)]
    ELSE Append(g, [id |-> n, attrs |-> attrs, adj |-> <<>>])

DropTarget(adj, n) == SelectSeq(adj, LAMBDA a : a.tgt # n)

\* mutant: edges into the node are left behind
remove_node_keep_in_edges(g, n) == SelectSeq(g, LAMBDA nd : nd.id # n)

\* G.remove_node(n): the node, its out-edges and every edge into it
remove_node(g, n) ==
    LET rest == SelectSeq(g, LAMBDA nd : nd.id # n)
    IN  [i \in DOMAIN rest |-> [rest[i] EXCEPT !.adj = DropTarget(@, n)]]

\* mutant: only the first node of the list is removed
remove_nodes_from_first_only(g, ns) ==
    IF ns = <<>> THEN g ELSE remove_node(g, Head(ns))

RECURSIVE remove_nodes_from(_, _)
\* G.remove_nodes_from(ns): nodes that are absent are skipped silently
remove_nodes_from(g, ns) ==
    IF ns = <<>> THEN g
    ELSE remove_nodes_from(remove_node(g, Head(ns)), Tail(ns))

HasAdj(adj, v) == \E i \in DOMAIN adj : adj[i].tgt = v

AdjIndex(adj, v) == CHOOSE i \in DOMAIN adj : adj[i].tgt = v

KeysOf(kd) == {kd[i].key : i \in DOMAIN kd}

\* mutant: every new edge gets the key 0
new_edge_key_zero(g, u, v) == 0

\* G.new_edge_key(u, v): len(keydict), then count up past the keys in use
new_edge_key(g, u, v) ==
    LET adj == g[NodeIndex(g, u)].adj
    IN  IF ~HasAdj(adj, v) THEN 0
        ELSE LET kd == adj[AdjIndex(adj, v)].kd
             IN  CHOOSE k \in Len(kd)..(2 * Len(kd)) :
                    /\ k \notin KeysOf(kd)
                    /\ \A j \in Len(kd)..(k - 1) : j \in KeysOf(kd)

\* keydict[key] = datadict after datadict.update(attr)
PutKey(kd, key, data) ==
    IF key \in KeysOf(kd)
    THEN [i \in DOMAIN kd |->
            IF kd[i].key = key THEN [kd[i] EXCEPT !.data = Update(@, data)] ELSE kd[i]]
    ELSE Append(kd, [key |-> key, data |-> data])

PutAdj(adj, v, key, data) ==
    IF HasAdj(adj, v)
    THEN [adj EXCEPT ![AdjIndex(adj, v)].kd = PutKey(@, key, data)]
    ELSE Append(adj, [tgt |-> v, kd |-> <<[key |-> key, data |-> data]>>])

\* G.add_edge(u, v, key, **data): missing endpoints are created as bare
\* nodes; without a key the edge gets new_edge_key
add_edge(g, u, v, key, data) ==
    LET g1 == IF HasNode(g, u) THEN g ELSE add_node(g, u, EmptyDict)
        g2 == IF HasNode(g1, v) THEN g1 ELSE add_node(g1, v, EmptyDict)
        k  == IF key = NoKey THEN new_edge_key(g2, u, v) ELSE key
    IN  [g2 EXCEPT ![NodeIndex(g2, u)].adj = PutAdj(@, v, k, data)]

\* mutant: every parallel edge between the two nodes goes with the chosen one
remove_edge_all_parallel(g, u, v, key) ==
    IF ~HasNode(g, u) THEN g
    ELSE [g EXCEPT ![NodeIndex(g, u)].adj = DropTarget(@, v)]

\* G.remove_edge(u, v, key) inside remove_edges_from: a missing edge is
\* skipped; the last key of a pair takes the adjacency entry with it
remove_edge(g, u, v, key) ==
    IF ~HasNode(g, u) THEN g
    ELSE LET adj == g[NodeIndex(g, u)].adj
         IN  IF ~HasAdj(adj, v) THEN g
             ELSE LET kd == SelectSeq(adj[AdjIndex(adj, v)].kd,
                                      LAMBDA e : e.key # key)
                      adj2 == IF kd = <<>> THEN DropTarget(adj, v)
                              ELSE [adj EXCEPT ![AdjIndex(adj, v)].kd = kd]
                  IN  [g EXCEPT ![NodeIndex(g, u)].adj = adj2]

RECURSIVE remove_edges_from(_, _)
remove_edges_from(g, es) ==
    IF es = <<>> THEN g
    ELSE remove_edges_from(remove_edge(g, Head(es).src, Head(es).tgt, Head(es).key),
                           Tail(es))

AdjEdges(u, a) ==
    [i \in DOMAIN a.kd |->
        [src |-> u, tgt |-> a.tgt, key |-> a.kd[i].key, data |-> a.kd[i].data]]

NodeEdges(nd) == Flatten([i \in DOMAIN nd.adj |-> AdjEdges(nd.id, nd.adj[i])])

\* list(G.edges(keys=True, data=True)): by node, then successor, then key
Edges(g) == Flatten([i \in DOMAIN g |-> NodeEdges(g[i])])

\* every edge of g joins two nodes of g
NoDangling(g) ==
    \A i \in DOMAIN g : \A j \in DOMAIN g[i].adj : HasNode(g, g[i].adj[j].tgt)

\* ------------------------------------------------------------ conversion.py
RECURSIVE LoadEntities(_, _)
LoadEntities(g, ents) ==
    IF ents = <<>> THEN g
    ELSE LoadEntities(add_node(g, Head(ents).id, Without(Head(ents), {"id"})),
                     Tail(ents))

RECURSIVE LoadRelations(_, _)
LoadRelations(g, rels) ==
    IF rels = <<>> THEN g
    ELSE LoadRelations(
            add_edge(g, Head(rels).source, Head(rels).target, NoKey,
                     Update([type |-> Get(Head(rels), "type", "")],
                            Without(Head(rels), {"source", "target", "type"}))),
            Tail(rels))

\* kg_json.get("entities", []) and kg_json.get("relations", []): a missing
\* key reads as the empty list
json_to_networkx(kg) ==
    LoadRelations(LoadEntities(EmptyGraph, Get(kg, "entities", <<>>)),
                  Get(kg, "relations", <<>>))

networkx_to_json(g) ==
    [entities  |-> [i \in DOMAIN g |-> Update([id |-> g[i].id], g[i].attrs)],
     relations |-> LET es == Edges(g)
                   IN  [i \in DOMAIN es |->
                          Update([source |-> es[i].src, target |-> es[i].tgt],
                                 es[i].data)]]

\* ------------------------------------------------------------------ random
\* The global generator is either unseeded (NoSeed: every draw is free) or
\* at position rngPos of the stream of the seed it was last seeded with; a
\* seed's stream is fixed, so a draw at a position already revealed repeats.
\* A draw is the result of randbelow(m), a raw stream value reduced to 0..m-1.
DrawSeqsAt(seed, pos, ms) ==
    IF ms = <<>> THEN {<<>>}
    ELSE LET top == Max(1, CHOOSE m \in Range(ms) : \A x \in Range(ms) : x <= m)
         IN  {ds \in [DOMAIN ms -> 0..(top - 1)] :
                \A i \in DOMAIN ms :
                   /\ ds[i] < ms[i]
                   /\ (seed # NoSeed /\ pos + i <= Len(streams[seed]))
                        => ds[i] = streams[seed][pos + i] % ms[i]}

\* the draws the generator can give next, one per modulus of ms
DrawSeqs(ms) == DrawSeqsAt(rngSeed, rngPos, ms)

\* the stream of seed, known up to the draws ds taken at position pos
Revealed(seed, pos, ds) ==
    [streams EXCEPT ![seed] =
        [i \in 1..Max(Len(@), pos + Len(ds)) |->
            IF i <= Len(@) THEN @[i] ELSE ds[i - pos]]]

\* the generator after the draws ds
Consume(ds) ==
    IF rngSeed = NoSeed
    THEN UNCHANGED <<rngSeed, rngPos, streams>>
    ELSE /\ rngSeed' = rngSeed
         /\ rngPos' = rngPos + Len(ds)
         /\ streams' = Revealed(rngSeed, rngPos, ds)

\* the moduli of the randbelow calls of random.sample(population, k), len n
SampleModuli(n, k) == [i \in 1..k |-> n - (i - 1)]

RECURSIVE SampleLoop_with_replacement(_, _, _, _)
\* mutant: the chosen element stays in the pool
SampleLoop_with_replacement(pool, n, i, ds) ==
    IF ds = <<>> THEN <<>>
    ELSE <<pool[Head(ds) + 1]>> \o
         SampleLoop_with_replacement(pool, n, i + 1, Tail(ds))

RECURSIVE SampleLoop(_, _, _, _)
\* for i in range(k): j = randbelow(n-i); result[i] = pool[j]; pool[j] = pool[n-i-1]
SampleLoop(pool, n, i, ds) ==
    IF ds = <<>> THEN <<>>
    ELSE LET j == Head(ds) + 1
         IN  <<pool[j]>> \o
             SampleLoop([pool EXCEPT ![j] = pool[n - i]], n, i + 1, Tail(ds))

\* random.sample(population, k) given the k draws ds
sample(population, ds) == SampleLoop(population, Len(population), 0, ds)

\* ---------------------------------------------------------------- utils.py
\* mutant: the candidate is not checked against the graph
generate_unique_node_id_unchecked(g) == RandId(1)

\* i = 1; while f"rand_{i}" in G: i += 1
generate_unique_node_id(g) ==
    RandId(CHOOSE i \in 1..(Len(g) + 1) :
              /\ ~HasNode(g, RandId(i))
              /\ \A j \in 1..(i - 1) : HasNode(g, RandId(j)))

RECURSIVE add_random_entities(_, _, _, _)
\* the graph, the returned dict and (history) the ids minted, after n more
\* rounds of the loop; the dict is written under the one key None each round
add_random_entities(g, n, added, ids) ==
    IF n = 0 THEN [g |-> g, added |-> added, ids |-> ids]
    ELSE LET new_id == generate_unique_node_id(g)
         IN  add_random_entities(add_node(g, new_id, [type |-> "RandomEntity"]),
                                 n - 1,
                                 Update(added, [k \in {None} |-> new_id]),
                                 Append(ids, new_id))

\* dict.values() / dict.keys() as fed to set.update
Values(d) == {d[k] : k \in DOMAIN d}

\* to_remove = random.sample(nodes, min(n, len(nodes)))
remove_random_entities(g, ds) ==
    LET to_remove == sample(NodeIds(g), ds)
    IN  [g |-> remove_nodes_from(g, to_remove), removed |-> Range(to_remove)]

RECURSIVE add_random_edges(_, _, _, _)
\* n rounds of: src, tgt = random.sample(nodes, 2); G.add_edge(src, tgt, ...)
\* over the node list taken before the loop; made: (history) the new edges
add_random_edges(g, nodes, ds, made) ==
    IF ds = <<>> THEN [g |-> g, made |-> made]
    ELSE LET pair == sample(nodes, SubSeq(ds, 1, 2))
             key  == new_edge_key(g, pair[1], pair[2])
         IN  add_random_edges(
                add_edge(g, pair[1], pair[2], NoKey, [type |-> "randomRelation"]),
                nodes, SubSeq(ds, 3, Len(ds)),
                made \cup {<<pair[1], pair[2], key>>})

\* list(G.edges): the (u, v, key) triples
EdgeKeys(g) ==
    LET es == Edges(g)
    IN  [i \in DOMAIN es |-> [src |-> es[i].src, tgt |-> es[i].tgt, key |-> es[i].key]]

remove_random_edges(g, ds) == remove_edges_from(g, sample(EdgeKeys(g), ds))

\* entity_mapping is an insertion-ordered dict: a sequence of <<key, value>>
MapKeys(m) == {m[i][1] : i \in DOMAIN m}

MapValues(m) == {m[i][2] : i \in DOMAIN m}

\* entity_mapping.get(k, k)
MapGet(m, k) ==
    IF k \in MapKeys(m) THEN m[CHOOSE i \in DOMAIN m : m[i][1] = k][2] ELSE k

\* mutant: the counter starts at the original count
FirstNewId_from_count(n) == n

\* new_id_counter = n_nodes + 1
FirstNewId(n) == n + 1

Reverse(sq) == [i \in DOMAIN sq |-> sq[Len(sq) + 1 - i]]

\* mutant: the survivors are enumerated from a set, in an order that is not
\* the same in every run
BuildMapping_unstable_order(g, removed, added, n) ==
    LET listed == SelectSeq(NodeIds(g),
                            LAMBDA x : x \notin removed /\ x \notin added)
        surviving == IF run = 1 THEN listed ELSE Reverse(listed)
    IN  [i \in DOMAIN surviving |-> <<surviving[i], EId(FirstNewId(n) + (i - 1))>>]

\* surviving_entities and the mapping built over them
BuildMapping(g, removed, added, n) ==
    LET surviving == SelectSeq(NodeIds(g),
                               LAMBDA x : x \notin removed /\ x \notin added)
    IN  [i \in DOMAIN surviving |-> <<surviving[i], EId(FirstNewId(n) + (i - 1))>>]

RECURSIVE CopyNodes_bare(_, _)
\* mutant: the new node is created without the attributes of the old one
CopyNodes_bare(g, m) ==
    IF m = <<>> THEN g
    ELSE CopyNodes_bare(IF HasNode(g, Head(m)[1])
                        THEN add_node(g, Head(m)[2], EmptyDict)
                        ELSE g,
                        Tail(m))

RECURSIVE CopyNodes(_, _)
\* for original_id, new_id in entity_mapping.items(): add_node(new_id, **old)
CopyNodes(g, m) ==
    IF m = <<>> THEN g
    ELSE CopyNodes(IF HasNode(g, Head(m)[1])
                   THEN add_node(g, Head(m)[2], NodeAttrs(g, Head(m)[1]))
                   ELSE g,
                   Tail(m))

\* mutant: the nodes under the old identifiers are left in the graph
RemoveOld_keeps_all(g, m) == g

RECURSIVE RemoveOld(_, _)
\* for original_id in entity_mapping.keys(): G.remove_node(original_id)
RemoveOld(g, m) ==
    IF m = <<>> THEN g
    ELSE RemoveOld(IF HasNode(g, Head(m)[1]) THEN remove_node(g, Head(m)[1]) ELSE g,
                   Tail(m))

RECURSIVE ReAddEdges_source_only(_, _, _)
\* mutant: only the source of a stored edge is rewritten through the mapping
ReAddEdges_source_only(g, es, m) ==
    IF es = <<>> THEN g
    ELSE LET new_src == MapGet(m, Head(es).src)
             new_tgt == Head(es).tgt
         IN  ReAddEdges_source_only(
                IF HasNode(g, new_src) /\ HasNode(g, new_tgt)
                THEN add_edge(g, new_src, new_tgt, Head(es).key, Head(es).data)
                ELSE g,
                Tail(es), m)

RECURSIVE ReAddEdges(_, _, _)
\* re-add each stored edge under the new ids if both endpoints are in G
ReAddEdges(g, es, m) ==
    IF es = <<>> THEN g
    ELSE LET new_src == MapGet(m, Head(es).src)
             new_tgt == MapGet(m, Head(es).tgt)
         IN  ReAddEdges(IF HasNode(g, new_src) /\ HasNode(g, new_tgt)
                        THEN add_edge(g, new_src, new_tgt, Head(es).key, Head(es).data)
                        ELSE g,
                        Tail(es), m)

reassign_entity_ids(g, removed, added, n) ==
    LET m == BuildMapping(g, removed, added, n)
        all_edges == Edges(g)
    IN  [g |-> ReAddEdges(RemoveOld(CopyNodes(g, m), m), all_edges, m),
         mapping |-> m]

\* ----------------------------------------------- perturbator.py: content
\* what one call of the collaborator may return: "" stands for an absent
\* or empty result, "x" for a rewritten text
Replies(mode) ==
    CASE mode = "none"  -> {""}
      [] mode = "const" -> {"x"}
      [] OTHER          -> {"", "x"}

\* Python truthiness of a scalar or list-valued field
Truthy(val) == IF val.kind = "list" THEN val.v # <<>> ELSE val.v # ""

\* mutant: the name is not tested for emptiness
HasName_key_only(attrs) == "name" \in DOMAIN attrs

\* "name" in attrs and attrs["name"]
HasName(attrs) == "name" \in DOMAIN attrs /\ Truthy(attrs.name)

\* entities rename_entities_with_llm calls the collaborator for
RenameEligible(nd) == HasName(nd.attrs)

\* mutant: an empty result is written like any other
RenameNode_writes_empty(nd, new_name) ==
    IF ~RenameEligible(nd) THEN nd
    ELSE IF nd.attrs.name.kind = "list"
         THEN [nd EXCEPT !.attrs.name.v[1] = new_name]
         ELSE [nd EXCEPT !.attrs.name = Str(new_name)]

RenameNode(nd, new_name) ==
    IF ~RenameEligible(nd) \/ new_name = "" THEN nd
    ELSE IF nd.attrs.name.kind = "list"
         THEN [nd EXCEPT !.attrs.name.v[1] = new_name]
         ELSE [nd EXCEPT !.attrs.name = Str(new_name)]

\* rs[i] is the collaborator's answer for the i-th node
rename_entities_with_llm(g, rs) == [i \in DOMAIN g |-> RenameNode(g[i], rs[i])]

\* The caller's kg_json after rename_entities_with_llm.  json_to_networkx hands
\* the values of each entity dict to add_node and reassign_entity_ids the
\* values of the old node's dict, neither copies them: a list-valued name is
\* one list object, held by the entity of kg_json and by the node it became,
\* and G.nodes[node_id]["name"][0] = new_name writes into that object.
input_after_rename(kg, g, m, rs) ==
    LET ents == kg.entities
        NewName(e) == rs[NodeIndex(g, MapGet(m, e.id))]
        Shared(e) == /\ "name" \in DOMAIN e
                     /\ e.name.kind = "list"
                     /\ e.name.v # <<>>
                     /\ HasNode(g, MapGet(m, e.id))
                     /\ NewName(e) # ""
    IN  [kg EXCEPT !.entities =
            [i \in DOMAIN ents |->
                IF Shared(ents[i]) THEN [ents[i] EXCEPT !.name.v[1] = NewName(ents[i])]
                ELSE ents[i]]]

\* old_type = attrs.get("type"); if old_type: ... G.edges[src, tgt, key]["type"] = new_type
RelationEligible(data) == "type" \in DOMAIN data /\ data.type # ""

\* mutant: the renamed relation is added as one more edge
SetEdgeType_as_new_edge(g, e, new_type) ==
    add_edge(g, e.src, e.tgt, NoKey, [type |-> new_type])

\* G.edges[src, tgt, key]["type"] = new_type
SetEdgeType(g, e, new_type) ==
    LET i == NodeIndex(g, e.src)
        j == AdjIndex(g[i].adj, e.tgt)
    IN  [g EXCEPT ![i].adj[j].kd = PutKey(@, e.key, [type |-> new_type])]

RECURSIVE RenameEdges(_, _, _)
RenameEdges(g, es, rs) ==
    IF es = <<>> THEN g
    ELSE RenameEdges(IF RelationEligible(Head(es).data) /\ Head(rs) # ""
                     THEN SetEdgeType(g, Head(es), Head(rs))
                     ELSE g,
                     Tail(es), Tail(rs))

\* rs[i] is the collaborator's answer for the i-th edge of G.edges
rename_relations_with_llm(g, rs) == RenameEdges(g, Edges(g), rs)

\* entities perturb_entities_with_llm calls the collaborator for
PerturbEligible(nd) ==
    /\ ~("type" \in DOMAIN nd.attrs /\ nd.attrs.type = "RandomEntity")
    /\ DOMAIN Without(nd.attrs, {"id"}) # {}
    /\ HasName(nd.attrs)

PerturbNode(nd, new_description, lc) ==
    IF ~PerturbEligible(nd) \/ new_description = "" THEN nd
    ELSE LET a1 == IF lc.update_description
                   THEN Update(nd.attrs, [description |-> List(<<new_description>>)])
                   ELSE nd.attrs
             a2 == IF lc.update_name
                   THEN Update(a1, [name |-> List(<<new_description>>)])
                   ELSE a1
         IN  [nd EXCEPT !.attrs = a2]

perturb_entities_with_llm(g, rs, lc) ==
    [i \in DOMAIN g |-> PerturbNode(g[i], rs[i], lc)]

\* base_llm_wrapper.py, synthesize_description: the prompt reads
\* entity["name"] and entity["type"], a KeyError when the key is missing
SynthesizeRaises(nd) ==
    PerturbEligible(nd) /\ ~({"name", "type"} \subseteq DOMAIN nd.attrs)

\* the first entity, in node order, the collaborator raises for (0: none)
FirstRaise(g) ==
    IF \E i \in DOMAIN g : SynthesizeRaises(g[i])
    THEN CHOOSE i \in DOMAIN g :
            /\ SynthesizeRaises(g[i])
            /\ \A j \in 1..(i - 1) : ~SynthesizeRaises(g[j])
    ELSE 0

\* the graph as the loop leaves it when the call for the k-th node raises
perturb_entities_until(g, rs, lc, k) ==
    [i \in DOMAIN g |-> IF i < k THEN PerturbNode(g[i], rs[i], lc) ELSE g[i]]

\* the collaborator was not called for the item, or its call raised
NotAsked == "NotAsked"

Raised == "Raised"

\* the answers a pass can get: one per eligible item, "" where none is asked
RenameReplies(g, mode) ==
    {rs \in [DOMAIN g -> {"", "x"}] :
        \A i \in DOMAIN g :
            IF RenameEligible(g[i]) THEN rs[i] \in Replies(mode) ELSE rs[i] = ""}

PerturbReplies(g, mode) ==
    {rs \in [DOMAIN g -> {"", "x"}] :
        \A i \in DOMAIN g :
            IF PerturbEligible(g[i]) THEN rs[i] \in Replies(mode) ELSE rs[i] = ""}

EdgeReplies(g, mode) ==
    LET es == Edges(g)
    IN  {rs \in [DOMAIN es -> {"", "x"}] :
            \A i \in DOMAIN es :
                IF RelationEligible(es[i].data) THEN rs[i] \in Replies(mode)
                ELSE rs[i] = ""}

\* ------------------------------------- kg_to_entity_alignment_files.py
\* the integers an identifier of the model can end in
IdNums == 0..(2 * MaxN + 2 * MaxCount + 4)

\* an identifier with another prefix letter and an integer suffix
NId(k) == "n" \o ToString(k)

\* int() raised ValueError
NoInt == -1

\* int(ent_id[1:]): the first character is dropped whatever it is, and the
\* rest must spell an integer
IntOfTail(id) ==
    IF \E k \in IdNums : id \in {EId(k), NId(k)}
    THEN CHOOSE k \in IdNums : id \in {EId(k), NId(k)}
    ELSE NoInt

\* every identifier of ids passes int(id[1:])
AllParse(ids) == \A id \in ids : IntOfTail(id) # NoInt

\* aligned_pairs: (int(kg1_id[1:]) - 1, int(kg2_id[1:]) - 1) per mapping entry
AlignedPairs(m) ==
    [i \in DOMAIN m |-> <<IntOfTail(m[i][1]) - 1, IntOfTail(m[i][2]) - 1>>]

\* the moduli of the randbelow calls of random.shuffle on a list of length n
ShuffleModuli(n) == [i \in 1..Max(0, n - 1) |-> n - (i - 1)]

RECURSIVE ShuffleLoop(_, _, _)
\* for i in reversed(range(1, len(x))): j = randbelow(i + 1); swap x[i], x[j]
ShuffleLoop(x, i, ds) ==
    IF ds = <<>> THEN x
    ELSE LET j == Head(ds) + 1
         IN  ShuffleLoop([x EXCEPT ![i] = x[j], ![j] = x[i]], i - 1, Tail(ds))

\* random.shuffle(x) given its draws
shuffle(x, ds) == ShuffleLoop(x, Len(x), ds)

\* mutant: the split index is rounded up
SplitIndex_rounds_up(n) == (n * 57 + 99) \div 100

\* split_index = int(len(aligned_pairs) * 0.57); for the list lengths of the
\* model the float product truncates to the same integer as the exact one
SplitIndex(n) == (n * 57) \div 100

\* the three files create_alignment_files writes from the shuffled pairs
AlignmentFiles(pairs) ==
    [ref_ent_ids |-> pairs,
     ref_pairs   |-> SubSeq(pairs, 1, SplitIndex(Len(pairs))),
     sup_pairs   |-> SubSeq(pairs, SplitIndex(Len(pairs)) + 1, Len(pairs))]

\* the identifiers and relation endpoints of a serialized KG
EntityIds(kg) == {kg.entities[i].id : i \in DOMAIN kg.entities}

Endpoints(kg) ==
    UNION {{kg.relations[i].source, kg.relations[i].target} : i \in DOMAIN kg.relations}

\* ------------------------------------------------------------------ inputs
Counts == 0..MaxCount

AddEdgeCounts == 0..MaxAddEdges

Providers == {"none", "const"}

\* load_llm_config: update_name and update_description are not set
LLMConfigs ==
    {[provider |-> m, update_name |-> FALSE, update_description |-> TRUE] :
        m \in Providers}

Configs ==
    [seed : Seeds \cup {NoSeed},
     remove_entities : Counts, add_entities : Counts,
     remove_edges : Counts, add_edges : AddEdgeCounts,
     llm_rename_entities : BOOLEAN, llm_rename_relations : BOOLEAN,
     llm_perturb_entities : BOOLEAN]

\* a well-formed input: entities e1..eN and relations between them
Entity(i) == [id |-> EId(i), type |-> "Person", name |-> Str("a")]

OriginalIds(n) == {EId(i) : i \in 1..n}

RelationLists(n) ==
    UNION {[1..k -> [source : OriginalIds(n), target : OriginalIds(n), type : {"rel"}]] :
              k \in 0..MaxRel}

InputKGs ==
    UNION {{[entities |-> [i \in 1..n |-> Entity(i)], relations |-> rels] :
               rels \in RelationLists(n)} : n \in 0..MaxN}

NoJson == [entities |-> <<>>, relations |-> <<>>]

NoPrev == [status |-> "none", kg |-> NoJson, mapping |-> <<>>]

\* no alignment file has been written
NoAlignment == [ref_ent_ids |-> <<>>, ref_pairs |-> <<>>, sup_pairs |-> <<>>]

\* the process before a run: nothing loaded, drawn or written
Fresh ==
    /\ pc = "seed"
    /\ run = 1
    /\ G = EmptyGraph
    /\ n_nodes = 0
    /\ removed_entities = {}
    /\ added_entities = {}
    /\ entity_mapping = <<>>
    /\ perturbed_json = NoJson
    /\ rngSeed = NoSeed
    /\ rngPos = 0
    /\ streams = [sd \in Seeds \cup {AlignSeed} |-> <<>>]
    /\ minted = <<>>
    /\ addedEdges = {}
    /\ preNodes = <<>>
    /\ edgesBefore = 0
    /\ trace = <<>>
    /\ prev = NoPrev
    /\ written = {}
    /\ alignment = NoAlignment
    /\ answers = <<>>

Init ==
    /\ kg_json \in InputKGs
    /\ config \in Configs
    /\ llm_config \in {lc \in LLMConfigs : lc.provider = "const"}
    /\ Fresh

\* ---- input files of any shape, for the two command-line pipelines
EntityWithId(id) == [id |-> id, type |-> "Person", name |-> Str("a")]

Relation(src, tgt) == [source |-> src, target |-> tgt, type |-> "rel"]

\* an input object without the "entities" key, without the "relations" key,
\* or without both
MissingKeyKGs ==
    {EmptyDict,
     [relations |-> <<>>],
     [relations |-> <<Relation(EId(1), EId(2))>>],
     [entities |-> <<Entity(1)>>],
     [entities |-> <<Entity(1), Entity(2)>>]}

\* identifiers that are not e<integer>: another prefix, or no integer at all
OddIds == {NId(1), "x"}

OddIdKGs ==
    UNION {{[entities |-> <<EntityWithId(ab[1]), EntityWithId(ab[2])>>,
             relations |-> rels] : rels \in {<<>>, <<Relation(ab[1], ab[2])>>}} :
           ab \in {p \in ({EId(1)} \cup OddIds) \X OddIds : p[1] # p[2]}}

\* identifiers a relation may name that no listed entity has
StrayIds(n) == {EId(n + 1), EId(n + 3)}

\* e1..eN listed, and one relation with an endpoint that is not listed
DanglingKGs ==
    UNION {{[entities |-> [i \in 1..n |-> Entity(i)], relations |-> <<rel>>] :
               rel \in {Relation(a, b) : a \in OriginalIds(n), b \in StrayIds(n)}
                    \cup {Relation(b, a) : a \in OriginalIds(n), b \in StrayIds(n)}} :
           n \in 1..(MaxN - 1)}

FileKGs == MissingKeyKGs \cup OddIdKGs \cup DanglingKGs \cup InputKGs

FileConfigs ==
    {c \in Configs :
        /\ c.seed = NoSeed
        /\ c.remove_entities <= 1 /\ c.remove_edges <= 1
        /\ ~c.llm_rename_entities /\ ~c.llm_rename_relations /\ ~c.llm_perturb_entities}

InitFiles ==
    /\ kg_json \in FileKGs
    /\ config \in FileConfigs
    /\ llm_config \in {lc \in LLMConfigs : lc.provider = "const"}
    /\ Fresh

\* ---- entities and relations of any content, for the content passes
\* the attribute bags an entity may carry: a scalar, list-valued, empty or
\* absent name, with or without a type, with or without a description
EntityShapes(id) ==
    {[id |-> id, type |-> "Person", name |-> Str("a")],
     [id |-> id, type |-> "Person", name |-> Str("a"), description |-> Str("d")],
     [id |-> id, type |-> "Person", name |-> List(<<"a", "b">>)],
     [id |-> id, type |-> "Person", name |-> Str("")],
     [id |-> id, type |-> "Person", name |-> List(<<>>)],
     [id |-> id, type |-> "Person"],
     [id |-> id, name |-> Str("a")]}

\* a relation from the first to the last entity, with or without a type
ContentRelations(n) ==
    {<<>>, <<Relation(EId(1), EId(n))>>,
     <<[source |-> EId(1), target |-> EId(n), type |-> ""]>>}

ContentKGs ==
    UNION {[entities : {es \in [1..n -> UNION {EntityShapes(EId(i)) : i \in 1..n}] :
                           \A i \in 1..n : es[i].id = EId(i)},
            relations : ContentRelations(n)] : n \in 1..(MaxN - 1)}

ContentConfigs ==
    {c \in Configs :
        /\ c.seed = NoSeed
        /\ c.remove_entities <= 1 /\ c.add_entities <= 1
        /\ c.remove_edges = 0 /\ c.add_edges = 0}

\* llm_config.get("update_name", False), llm_config.get("update_description", True);
\* the collaborator may answer any call with a text or with nothing
ContentLLMConfigs ==
    [provider : {"any"}, update_name : BOOLEAN, update_description : {TRUE}]

InitContent ==
    /\ kg_json \in ContentKGs
    /\ config \in ContentConfigs
    /\ llm_config \in ContentLLMConfigs
    /\ Fresh

\* ---- graphs with parallel relations and self-loops, for the operators
\* every entity has its own name and every relation its own type
OpsEntity(i) == [id |-> EId(i), type |-> "Person", name |-> Str(ToString(i))]

OpsRelationLists(n) ==
    UNION {{[i \in 1..k |-> [source |-> st[i][1], target |-> st[i][2],
                             type |-> "r" \o ToString(i)]] :
               st \in [1..k -> OriginalIds(n) \X OriginalIds(n)]} : k \in 0..MaxRelOps}

OpsKGs ==
    UNION {{[entities |-> [i \in 1..n |-> OpsEntity(i)], relations |-> rels] :
               rels \in OpsRelationLists(n)} : n \in 0..MaxN}

OpsConfigs ==
    {c \in Configs :
        /\ c.seed = NoSeed
        /\ ~c.llm_rename_entities /\ ~c.llm_rename_relations /\ ~c.llm_perturb_entities}

InitOps ==
    /\ kg_json \in OpsKGs
    /\ config \in OpsConfigs
    /\ llm_config \in {lc \in LLMConfigs : lc.provider = "const"}
    /\ Fresh

\* ---- configurations that add more than one relation
EdgeOpsConfigs ==
    {[c EXCEPT !.add_edges = k] :
        c \in {d \in OpsConfigs : /\ d.remove_entities <= 1 /\ d.add_entities <= 1
                                  /\ d.remove_edges <= 1 /\ d.add_edges = 0},
        k \in 0..MaxAddEdgesOps}

InitEdges ==
    /\ kg_json \in OpsKGs
    /\ config \in EdgeOpsConfigs
    /\ llm_config \in {lc \in LLMConfigs : lc.provider = "const"}
    /\ Fresh

\* ---- inputs whose identifiers are e<k> for distinct k that need not be 1..N
GapIds == {EId(k) : k \in 1..(MaxN + 1)}

\* the i-th entity of the input, under the identifier id and with its own name
GapEntity(id, i) == [id |-> id, type |-> "Person", name |-> Str(ToString(i))]

\* two entities and at most one relation between them
GapKGs ==
    UNION {{[entities |-> <<GapEntity(ab[1], 1), GapEntity(ab[2], 2)>>,
             relations |-> rels] :
               rels \in {<<>>} \cup {<<Relation(x, y)>> : x, y \in {ab[1], ab[2]}}} :
           ab \in {p \in GapIds \X GapIds : p[1] # p[2]}}

GapConfigs ==
    {c \in OpsConfigs : /\ c.remove_entities <= 1 /\ c.add_entities <= 1
                        /\ c.remove_edges = 0 /\ c.add_edges = 0}

InitGaps ==
    /\ kg_json \in GapKGs
    /\ config \in GapConfigs
    /\ llm_config \in {lc \in LLMConfigs : lc.provider = "const"}
    /\ Fresh

\* ---- runs that ask for no operator, or for remove-entities alone
PureConfigs ==
    {c \in Configs :
        /\ c.remove_entities <= 1 /\ c.add_entities = 0
        /\ c.remove_edges = 0 /\ c.add_edges = 0
        /\ ~c.llm_rename_entities /\ ~c.llm_rename_relations /\ ~c.llm_perturb_entities}

InitPure ==
    /\ kg_json \in OpsKGs
    /\ config \in PureConfigs
    /\ llm_config \in {lc \in LLMConfigs : lc.provider = "const"}
    /\ Fresh

\* ---- the graphs and configurations of a batch of pipeline runs
BatchKGs == {kg \in InputKGs : Len(kg.entities) = MaxN - 1}

BatchConfigs ==
    {c \in Configs :
        /\ c.remove_entities <= 1 /\ c.add_entities = 0
        /\ c.remove_edges = 0
        /\ ~c.llm_rename_entities /\ ~c.llm_rename_relations /\ ~c.llm_perturb_entities}

InitBatch ==
    /\ kg_json \in BatchKGs
    /\ config \in BatchConfigs
    /\ llm_config \in {lc \in LLMConfigs : lc.provider = "const"}
    /\ Fresh

\* ----------------------------------------------------------------- actions
inputs == <<kg_json, config, llm_config, run, prev>>

rng == <<rngSeed, rngPos, streams>>

files == <<written, alignment>>

\* mutant: the edge operators run before the entity operators
NextPc_edges_first(p) ==
    CASE p = "seed"             -> "load"
      [] p = "load"             -> "remove_edges"
      [] p = "remove_edges"     -> "add_edges"
      [] p = "add_edges"        -> "remove_entities"
      [] p = "remove_entities"  -> "add_entities"
      [] p = "add_entities"     -> "reassign"
      [] p = "reassign"         -> "rename_entities"
      [] p = "rename_entities"  -> "rename_relations"
      [] p = "rename_relations" -> "perturb_entities"
      [] p = "perturb_entities" -> "to_json"
      [] p = "to_json"          -> "done"

\* the statement order of perturb_kg_from_files and perturb
NextPc(p) ==
    CASE p = "seed"             -> "load"
      [] p = "load"             -> "remove_entities"
      [] p = "remove_entities"  -> "add_entities"
      [] p = "add_entities"     -> "remove_edges"
      [] p = "remove_edges"     -> "add_edges"
      [] p = "add_edges"        -> "reassign"
      [] p = "reassign"         -> "rename_entities"
      [] p = "rename_entities"  -> "rename_relations"
      [] p = "rename_relations" -> "perturb_entities"
      [] p = "perturb_entities" -> "to_json"
      [] p = "to_json"          -> "done"

\* mutant: the requested count is not clamped
SampleSize_unclamped(n, len) == n

\* min(n, len(nodes)) and min(n, len(edges))
SampleSize(n, len) == Min(n, len)

\* cli.py: if "seed" in config: random.seed(config["seed"])
Seed ==
    /\ pc = "seed"
    /\ IF config.seed # NoSeed
       THEN /\ rngSeed' = config.seed
            /\ rngPos' = 0
            /\ trace' = Append(trace, "seed")
       ELSE UNCHANGED <<rngSeed, rngPos, trace>>
    /\ pc' = NextPc(pc)
    /\ UNCHANGED <<inputs, answers, files, streams, G, n_nodes, removed_entities, added_entities,
                   entity_mapping, perturbed_json, minted, addedEdges, preNodes,
                   edgesBefore>>

\* perturb: G = json_to_networkx(kg_json); n_nodes = len(G.nodes); empty sets
Load ==
    /\ pc = "load"
    /\ G' = json_to_networkx(kg_json)
    /\ n_nodes' = Len(G')
    /\ removed_entities' = {}
    /\ added_entities' = {}
    /\ pc' = NextPc(pc)
    /\ UNCHANGED <<inputs, answers, files, rng, entity_mapping, perturbed_json, minted, addedEdges,
                   preNodes, edgesBefore, trace>>

\* if config.get("remove_entities"): removed = remove_random_entities(G, n);
\* random.sample raises ValueError for a sample larger than the population
RemoveEntities ==
    /\ pc = "remove_entities"
    /\ IF config.remove_entities = 0
       THEN /\ pc' = NextPc(pc)
            /\ UNCHANGED <<G, removed_entities, rng, trace>>
       ELSE IF SampleSize(config.remove_entities, Len(G)) > Len(G)
       THEN /\ pc' = "error"
            /\ trace' = Append(trace, "remove_entities")
            /\ UNCHANGED <<G, removed_entities, rng>>
       ELSE \E ds \in DrawSeqs(SampleModuli(Len(G),
                                            SampleSize(config.remove_entities, Len(G)))) :
               LET r == remove_random_entities(G, ds)
               IN  /\ G' = r.g
                   /\ removed_entities' = removed_entities \cup r.removed
                   /\ Consume(ds)
                   /\ trace' = Append(trace, "remove_entities")
                   /\ pc' = NextPc(pc)
    /\ UNCHANGED <<inputs, answers, files, n_nodes, added_entities, entity_mapping, perturbed_json,
                   minted, addedEdges, preNodes, edgesBefore>>

\* if config.get("add_entities"): added = add_random_entities(G, n)
AddEntities ==
    /\ pc = "add_entities"
    /\ IF config.add_entities # 0
       THEN LET r == add_random_entities(G, config.add_entities, EmptyDict, <<>>)
            IN  /\ G' = r.g
                /\ added_entities' = added_entities \cup Values(r.added)
                /\ minted' = r.ids
                /\ trace' = Append(trace, "add_entities")
       ELSE UNCHANGED <<G, added_entities, minted, trace>>
    /\ pc' = NextPc(pc)
    /\ UNCHANGED <<inputs, answers, files, rng, n_nodes, removed_entities, entity_mapping,
                   perturbed_json, addedEdges, preNodes, edgesBefore>>

\* if config.get("remove_edges"): remove_random_edges(G, n)
RemoveEdges ==
    /\ pc = "remove_edges"
    /\ edgesBefore' = Len(Edges(G))
    /\ IF config.remove_edges = 0
       THEN /\ pc' = NextPc(pc)
            /\ UNCHANGED <<G, rng, trace>>
       ELSE IF SampleSize(config.remove_edges, Len(Edges(G))) > Len(Edges(G))
       THEN /\ pc' = "error"
            /\ trace' = Append(trace, "remove_edges")
            /\ UNCHANGED <<G, rng>>
       ELSE \E ds \in DrawSeqs(SampleModuli(Len(Edges(G)),
                                            SampleSize(config.remove_edges, Len(Edges(G))))) :
               /\ G' = remove_random_edges(G, ds)
               /\ Consume(ds)
               /\ trace' = Append(trace, "remove_edges")
               /\ pc' = NextPc(pc)
    /\ UNCHANGED <<inputs, answers, files, n_nodes, removed_entities, added_entities, entity_mapping,
                   perturbed_json, minted, addedEdges, preNodes>>

\* the moduli of n rounds of random.sample(nodes, 2)
PairModuli(len, n) == [i \in 1..(2 * n) |-> IF i % 2 = 1 THEN len ELSE len - 1]

\* mutant: with fewer than 2 nodes add-edges adds nothing and returns
AddEdges_skips_small ==
    /\ pc = "add_edges"
    /\ IF config.add_edges = 0
       THEN /\ pc' = NextPc(pc)
            /\ UNCHANGED <<G, rng, trace, addedEdges>>
       ELSE IF Len(G) < 2
       THEN /\ pc' = NextPc(pc)
            /\ trace' = Append(trace, "add_edges")
            /\ UNCHANGED <<G, rng, addedEdges>>
       ELSE \E ds \in DrawSeqs(PairModuli(Len(G), config.add_edges)) :
               LET r == add_random_edges(G, NodeIds(G), ds, {})
               IN  /\ G' = r.g
                   /\ addedEdges' = r.made
                   /\ Consume(ds)
                   /\ trace' = Append(trace, "add_edges")
                   /\ pc' = NextPc(pc)
    /\ UNCHANGED <<inputs, answers, files, n_nodes, removed_entities, added_entities, entity_mapping,
                   perturbed_json, minted, preNodes, edgesBefore>>

\* if config.get("add_edges"): add_random_edges(G, n); random.sample(nodes, 2)
\* raises ValueError when fewer than 2 nodes are left, which ends perturb
AddEdges ==
    /\ pc = "add_edges"
    /\ IF config.add_edges = 0
       THEN /\ pc' = NextPc(pc)
            /\ UNCHANGED <<G, rng, trace, addedEdges>>
       ELSE IF Len(G) < 2
       THEN /\ pc' = "error"
            /\ trace' = Append(trace, "add_edges")
            /\ UNCHANGED <<G, rng, addedEdges>>
       ELSE \E ds \in DrawSeqs(PairModuli(Len(G), config.add_edges)) :
               LET r == add_random_edges(G, NodeIds(G), ds, {})
               IN  /\ G' = r.g
                   /\ addedEdges' = r.made
                   /\ Consume(ds)
                   /\ trace' = Append(trace, "add_edges")
                   /\ pc' = NextPc(pc)
    /\ UNCHANGED <<inputs, answers, files, n_nodes, removed_entities, added_entities, entity_mapping,
                   perturbed_json, minted, preNodes, edgesBefore>>

\* entity_mapping = reassign_entity_ids(G, removed_entities, added_entities, n_nodes)
Reassign ==
    /\ pc = "reassign"
    /\ LET r == reassign_entity_ids(G, removed_entities, added_entities, n_nodes)
       IN  /\ G' = r.g
           /\ entity_mapping' = r.mapping
    /\ preNodes' = NodeIds(G)
    /\ trace' = Append(trace, "reassign")
    /\ pc' = NextPc(pc)
    /\ UNCHANGED <<inputs, answers, files, rng, n_nodes, removed_entities, added_entities,
                   perturbed_json, minted, addedEdges, edgesBefore>>

\* if config.get("llm_rename_entities"): rename_entities_with_llm(G, llm_config)
RenameEntities ==
    /\ pc = "rename_entities"
    /\ IF config.llm_rename_entities
       THEN \E rs \in RenameReplies(G, llm_config.provider) :
               /\ G' = rename_entities_with_llm(G, rs)
               /\ kg_json' = input_after_rename(kg_json, G, entity_mapping, rs)
               /\ answers' = [i \in DOMAIN G |->
                                 IF RenameEligible(G[i]) THEN rs[i] ELSE NotAsked]
               /\ trace' = Append(trace, "rename_entities")
       ELSE UNCHANGED <<G, trace, answers, kg_json>>
    /\ pc' = NextPc(pc)
    /\ UNCHANGED <<config, llm_config, run, prev, files, rng, n_nodes, removed_entities, added_entities,
                   entity_mapping, perturbed_json, minted, addedEdges, preNodes,
                   edgesBefore>>

\* if config.get("llm_rename_relations"): rename_relations_with_llm(G, llm_config)
RenameRelations ==
    /\ pc = "rename_relations"
    /\ IF config.llm_rename_relations
       THEN \E rs \in EdgeReplies(G, llm_config.provider) :
               /\ G' = rename_relations_with_llm(G, rs)
               /\ answers' = [i \in DOMAIN Edges(G) |->
                                 IF RelationEligible(Edges(G)[i].data) THEN rs[i]
                                 ELSE NotAsked]
               /\ trace' = Append(trace, "rename_relations")
       ELSE UNCHANGED <<G, trace, answers>>
    /\ pc' = NextPc(pc)
    /\ UNCHANGED <<inputs, files, rng, n_nodes, removed_entities, added_entities,
                   entity_mapping, perturbed_json, minted, addedEdges, preNodes,
                   edgesBefore>>

\* if config.get("llm_perturb_entities"): perturb_entities_with_llm(G, llm_config);
\* no statement of the pass or of perturb catches what the collaborator raises
PerturbEntities ==
    /\ pc = "perturb_entities"
    /\ IF ~config.llm_perturb_entities
       THEN /\ pc' = NextPc(pc)
            /\ UNCHANGED <<G, trace, answers>>
       ELSE \E rs \in PerturbReplies(G, llm_config.provider) :
               /\ trace' = Append(trace, "perturb_entities")
               /\ IF FirstRaise(G) = 0
                  THEN /\ G' = perturb_entities_with_llm(G, rs, llm_config)
                       /\ answers' = [i \in DOMAIN G |->
                                         IF PerturbEligible(G[i]) THEN rs[i] ELSE NotAsked]
                       /\ pc' = NextPc(pc)
                  ELSE \* the exception leaves the loop, the pass and perturb
                       /\ G' = perturb_entities_until(G, rs, llm_config, FirstRaise(G))
                       /\ answers' = [i \in DOMAIN G |->
                                         IF i > FirstRaise(G) \/ ~PerturbEligible(G[i])
                                         THEN NotAsked
                                         ELSE IF i = FirstRaise(G) THEN Raised ELSE rs[i]]
                       /\ pc' = "error"
    /\ UNCHANGED <<inputs, files, rng, n_nodes, removed_entities, added_entities,
                   entity_mapping, perturbed_json, minted, addedEdges, preNodes,
                   edgesBefore>>

\* perturbed_json = networkx_to_json(G); return perturbed_json, entity_mapping
ToJson ==
    /\ pc = "to_json"
    /\ perturbed_json' = networkx_to_json(G)
    /\ pc' = NextPc(pc)
    /\ UNCHANGED <<inputs, answers, files, rng, G, n_nodes, removed_entities, added_entities,
                   entity_mapping, minted, addedEdges, preNodes, edgesBefore, trace>>

\* cli.py, perturb_kg_from_files after perturb: the perturbed KG is written to
\* output_path, and the mapping to mapping_path if one is given and the
\* mapping is not empty
SavePerturb ==
    /\ pc = "done"
    /\ \E mapping_path \in BOOLEAN :
          written' = written \cup {"output_kg"} \cup
                     (IF mapping_path /\ entity_mapping # <<>> THEN {"mapping"} ELSE {})
    /\ trace' = Append(trace, "save")
    /\ pc' = "end"
    /\ UNCHANGED <<inputs, answers, rng, G, n_nodes, removed_entities, added_entities,
                   entity_mapping, perturbed_json, minted, addedEdges, preNodes,
                   edgesBefore, alignment>>

\* perturb_and_generate_alignment.py, perturb_kg after perturb: the perturbed
\* KG is written to output_kg_path; main goes on to generate_alignment_files
SaveAlign ==
    /\ pc = "done"
    /\ written' = written \cup {"output_kg"}
    /\ trace' = Append(trace, "save")
    /\ pc' = "emit"
    /\ UNCHANGED <<inputs, answers, rng, G, n_nodes, removed_entities, added_entities,
                   entity_mapping, perturbed_json, minted, addedEdges, preNodes,
                   edgesBefore, alignment>>

EntityFiles == {"type_ids", "ent_ids_1", "ent_ids_2", "ent_types_1", "ent_types_2"}

PairFiles == {"ref_ent_ids", "ref_pairs", "sup_pairs"}

RelationFiles == {"rel_ids_1", "rel_ids_2"}

\* generate_alignment_files(input_kg_path, output_kg_path, entity_mapping):
\* kg1 is the input file read again, kg2 the perturbed KG just written.  A
\* KeyError or ValueError ends it with the files written up to there.
Emit ==
    /\ pc = "emit"
    /\ trace' = Append(trace, "emit")
    /\ IF ~({"entities", "relations"} \subseteq DOMAIN kg_json)
       THEN \* len(kg1['entities']), len(kg1['relations'])
            /\ pc' = "error"
            /\ UNCHANGED <<rng, written, alignment>>
       ELSE IF ~AllParse(EntityIds(kg_json) \cup EntityIds(perturbed_json))
       THEN \* create_entity_files: int(ent_id[1:]) before any of its writes
            /\ pc' = "error"
            /\ written' = written \cup {"type_ids"}
            /\ UNCHANGED <<rng, alignment>>
       ELSE IF ~AllParse(MapKeys(entity_mapping) \cup MapValues(entity_mapping))
       THEN \* create_alignment_files: int(kg1_id[1:]), int(kg2_id[1:])
            /\ pc' = "error"
            /\ written' = written \cup EntityFiles
            /\ UNCHANGED <<rng, alignment>>
       ELSE \E ds \in DrawSeqsAt(AlignSeed, 0, ShuffleModuli(Len(entity_mapping))) :
               \* random.seed(42); random.shuffle(aligned_pairs); the three files
               /\ rngSeed' = AlignSeed
               /\ rngPos' = Len(ds)
               /\ streams' = Revealed(AlignSeed, 0, ds)
               /\ alignment' = AlignmentFiles(shuffle(AlignedPairs(entity_mapping), ds))
               /\ IF \E i \in DOMAIN kg_json.relations :
                        "type" \notin DOMAIN kg_json.relations[i]
                  THEN \* create_relation_files: relation['type']
                       /\ pc' = "error"
                       /\ written' = written \cup EntityFiles \cup PairFiles
                  ELSE IF ~AllParse(Endpoints(kg_json))
                  THEN \* create_triple_files: triples_1 is open when int() raises
                       /\ pc' = "error"
                       /\ written' = written \cup EntityFiles \cup PairFiles
                                        \cup RelationFiles \cup {"triples_1"}
                  ELSE IF ~AllParse(Endpoints(perturbed_json))
                  THEN /\ pc' = "error"
                       /\ written' = written \cup EntityFiles \cup PairFiles
                                        \cup RelationFiles \cup {"triples_1", "triples_2"}
                  ELSE /\ pc' = "end"
                       /\ written' = written \cup EntityFiles \cup PairFiles
                                        \cup RelationFiles \cup {"triples_1", "triples_2"}
    /\ UNCHANGED <<inputs, answers, G, n_nodes, removed_entities, added_entities,
                   entity_mapping, perturbed_json, minted, addedEdges, preNodes,
                   edgesBefore>>

\* perturb_kg_from_files is called a second time in the same process with
\* the same input file and configuration; the collaborator may answer anew
Rerun ==
    /\ pc \in {"done", "error"}
    /\ run = 1
    /\ prev' = [status |-> pc, kg |-> perturbed_json, mapping |-> entity_mapping]
    /\ run' = 2
    /\ llm_config' \in LLMConfigs
    /\ pc' = "seed"
    /\ G' = EmptyGraph
    /\ n_nodes' = 0
    /\ removed_entities' = {}
    /\ added_entities' = {}
    /\ entity_mapping' = <<>>
    /\ perturbed_json' = NoJson
    /\ minted' = <<>>
    /\ addedEdges' = {}
    /\ preNodes' = <<>>
    /\ edgesBefore' = 0
    /\ trace' = <<>>
    /\ answers' = <<>>
    /\ UNCHANGED <<kg_json, config, rng, files>>

\* a pipeline is run again in the same process, on the same input file
\* under any configuration: the module-level generator of random and the
\* files on disk are as the first run left them
NextRun ==
    /\ pc \in {"end", "error"}
    /\ run = 1
    /\ prev' = [status |-> pc, kg |-> perturbed_json, mapping |-> entity_mapping]
    /\ run' = 2
    /\ config' \in BatchConfigs
    /\ pc' = "seed"
    /\ G' = EmptyGraph
    /\ n_nodes' = 0
    /\ removed_entities' = {}
    /\ added_entities' = {}
    /\ entity_mapping' = <<>>
    /\ perturbed_json' = NoJson
    /\ minted' = <<>>
    /\ addedEdges' = {}
    /\ preNodes' = <<>>
    /\ edgesBefore' = 0
    /\ trace' = <<>>
    /\ answers' = <<>>
    /\ UNCHANGED <<kg_json, llm_config, rng, files>>

Step ==
    \/ Seed
    \/ Load
    \/ RemoveEntities
    \/ AddEntities
    \/ RemoveEdges
    \/ AddEdges
    \/ Reassign
    \/ RenameEntities
    \/ RenameRelations
    \/ PerturbEntities
    \/ ToJson

Next == Step

Spec == Init /\ [][Next]_vars

\* two runs in one process
NextTwice == Step \/ Rerun

\* both runs are seeded: "seed" is a key of the configuration
InitTwice == Init /\ config.seed # NoSeed

SpecTwice == InitTwice /\ [][NextTwice]_vars

\* one run of perturb over graphs with parallel relations and self-loops
SpecOps == InitOps /\ [][Next]_vars

\* one run of perturb that may add several relations
SpecEdges == InitEdges /\ [][Next]_vars

\* one run of perturb over inputs with any identifiers e<k>
SpecGaps == InitGaps /\ [][Next]_vars

\* one run of perturb, seeded or not, that asks for little or nothing
SpecPure == InitPure /\ [][Next]_vars

\* one run of perturb over entities and relations of any content
SpecContent == InitContent /\ [][Next]_vars

\* one run of either command-line pipeline: cli.py perturb, which saves and
\* ends, or perturb-and-align, which saves and emits the alignment files
NextFiles == Step \/ SavePerturb \/ SaveAlign \/ Emit

SpecFiles == InitFiles /\ [][NextFiles]_vars

\* two runs of the command-line pipelines in one process
NextBatch == NextFiles \/ NextRun

SpecBatch == InitBatch /\ [][NextBatch]_vars

\* ------------------------------------------------------------------ claims
\* the identifiers e1..eN of the input KG
OrigIds == {kg_json.entities[i].id : i \in DOMAIN kg_json.entities}

InputCount == Len(kg_json.entities)

OutIds == {perturbed_json.entities[i].id : i \in DOMAIN perturbed_json.entities}

\* reassign_entity_ids has returned
Reassigned ==
    pc \in {"rename_entities", "rename_relations", "perturb_entities", "to_json", "done"}

\* C1: when perturb returns, the keys of the Entity Mapping are exactly the
\* original identifiers minus the removed ones, and no identifier minted by
\* add-entities is a key.
C1_KeysAreSurvivors ==
    pc = "done" =>
        /\ MapKeys(entity_mapping) = OrigIds \ removed_entities
        /\ MapKeys(entity_mapping) \cap Range(minted) = {}

\* C2: when perturb returns, the output holds N - min(remove_entities, N) +
\* add_entities entities.
C2_EntityCount ==
    pc = "done" =>
        Len(perturbed_json.entities) =
            InputCount - Min(config.remove_entities, InputCount) + config.add_entities

\* a run that clamps the removal and adds entities has returned
C2_Witness ==
    /\ pc = "done"
    /\ config.remove_entities > InputCount
    /\ InputCount >= 1
    /\ config.add_entities = 2

\* C3: the values of the Entity Mapping are disjoint from its keys, from the
\* original identifiers e1..eN and from the identifiers minted by add-entities.
C3_ValuesDisjoint ==
    Reassigned =>
        /\ MapValues(entity_mapping) \cap MapKeys(entity_mapping) = {}
        /\ MapValues(entity_mapping) \cap OrigIds = {}
        /\ MapValues(entity_mapping) \cap Range(minted) = {}

\* a mapping with entries, made after a removal and an addition
C3_Witness ==
    /\ pc = "done"
    /\ Len(entity_mapping) >= 2
    /\ removed_entities # {}
    /\ minted # <<>>

\* the relations of the serialized output join entities of the output
OutputIntact ==
    \A i \in DOMAIN perturbed_json.relations :
        /\ perturbed_json.relations[i].source \in OutIds
        /\ perturbed_json.relations[i].target \in OutIds

\* C4: after every step of the pipeline and in the serialized output, the
\* source and target of every relation are entities of the graph.
C4_NoDangling == NoDangling(G) /\ (pc = "done" => OutputIntact)

\* an entity with an incoming relation from a survivor was removed, and the
\* output still holds a relation
C4_Witness ==
    /\ pc = "done"
    /\ \E i \in DOMAIN kg_json.relations :
          /\ kg_json.relations[i].target \in removed_entities
          /\ kg_json.relations[i].source \notin removed_entities
    /\ perturbed_json.relations # <<>>

\* the identifiers and the relation endpoints of a serialized KG, in order
Structure(kg) ==
    [entities  |-> [i \in DOMAIN kg.entities |-> kg.entities[i].id],
     relations |-> [i \in DOMAIN kg.relations |->
                       <<kg.relations[i].source, kg.relations[i].target>>]]

\* C5: a second run with the same seed, configuration and input ends as the
\* first did, with the same entity identifiers in the same order, the same
\* relation endpoints and the same Entity Mapping, whatever the content
\* passes wrote.
C5_Reproducible ==
    (run = 2 /\ pc \in {"done", "error"}) =>
        /\ prev.status = pc
        /\ Structure(perturbed_json) = Structure(prev.kg)
        /\ entity_mapping = prev.mapping

\* both runs drew at random and returned, and their content differs
C5_Witness ==
    /\ run = 2
    /\ pc = "done"
    /\ removed_entities # {}
    /\ addedEdges # {}
    /\ perturbed_json # prev.kg

\* the order the pipeline fixes for its steps
StepOrder ==
    <<"seed", "remove_entities", "add_entities", "remove_edges", "add_edges",
      "reassign", "rename_entities", "rename_relations", "perturb_entities">>

StepPos(st) == CHOOSE i \in DOMAIN StepOrder : StepOrder[i] = st

Executed(st) == st \in Range(trace)

\* C6: the steps of a run occur in the fixed order; a content pass runs only
\* after identifier reassignment, and an edge operator only after both
\* entity operators that the configuration asks for.
C6_PipelineOrder ==
    /\ \A i, j \in DOMAIN trace : i < j => StepPos(trace[i]) < StepPos(trace[j])
    /\ (config.seed # NoSeed /\ trace # <<>>) => trace[1] = "seed"
    /\ \A st \in {"rename_entities", "rename_relations", "perturb_entities"} :
          Executed(st) => Executed("reassign")
    /\ \A st \in {"remove_edges", "add_edges"} :
          Executed(st) =>
             /\ config.remove_entities # 0 => Executed("remove_entities")
             /\ config.add_entities # 0 => Executed("add_entities")

\* a run that executed every step
C6_Witness == pc = "done" /\ trace = StepOrder

\* the entities present at reassignment that are neither removed nor minted
Survivors ==
    SelectSeq(preNodes, LAMBDA x : x \notin removed_entities /\ x \notin Range(minted))

\* C7: reassignment maps the i-th survivor, in insertion order, to e<N+i>, so
\* the values of the mapping are exactly e<N+1>..e<N+k> for k survivors.
C7_SequentialMapping ==
    Reassigned =>
        entity_mapping =
            [i \in DOMAIN Survivors |-> <<Survivors[i], EId(InputCount + i)>>]

\* C8: every entity minted by add-entities is in the output under the
\* identifier it was minted with, with type RandomEntity.
C8_MintedKeepIds ==
    pc = "done" =>
        \A m \in Range(minted) :
            \E i \in DOMAIN perturbed_json.entities :
                /\ perturbed_json.entities[i].id = m
                /\ perturbed_json.entities[i].type = "RandomEntity"

\* the edge (u, v, key) is in g
HasEdge(g, u, v, key) ==
    \E e \in Range(Edges(g)) : e.src = u /\ e.tgt = v /\ e.key = key

\* C9: no relation made by add-edges is a self-loop, neither when it is made
\* nor as it stands in the graph and the output after reassignment.
C9_NoSelfLoop ==
    /\ \A e \in addedEdges : e[1] # e[2]
    /\ Reassigned =>
          \A e \in addedEdges :
              /\ MapGet(entity_mapping, e[1]) # MapGet(entity_mapping, e[2])
              /\ HasEdge(G, MapGet(entity_mapping, e[1]),
                            MapGet(entity_mapping, e[2]), e[3])
    /\ pc = "done" =>
          \A e \in addedEdges :
              \E i \in DOMAIN perturbed_json.relations :
                  /\ perturbed_json.relations[i].source = MapGet(entity_mapping, e[1])
                  /\ perturbed_json.relations[i].target = MapGet(entity_mapping, e[2])
                  /\ perturbed_json.relations[i].source # perturbed_json.relations[i].target

\* add-edges ran on a graph of exactly 2 entities and the run returned
C9_Witness ==
    /\ pc = "done"
    /\ Len(preNodes) = 2
    /\ addedEdges # {}

\* more entities, or more relations, were asked to be removed than existed
OverRemovedEntities == Executed("remove_entities") /\ config.remove_entities > n_nodes

OverRemovedEdges == Executed("remove_edges") /\ config.remove_edges > edgesBefore

\* the clamped removal took everything and raised nothing
ClampedRemoval ==
    /\ OverRemovedEntities =>
          /\ removed_entities = OrigIds
          /\ pc = "add_entities" => G = EmptyGraph
    /\ (OverRemovedEdges /\ pc = "add_edges") => Edges(G) = <<>>
    /\ pc = "error" => trace[Len(trace)] = "add_edges"

Conforms(id) == \E k \in IdNums : id = EId(k)

ListedIds == {e.id : e \in Range(Get(kg_json, "entities", <<>>))}

\* the input lacks a key, or lists an identifier that is not e<integer>
Malformed ==
    \/ ~({"entities", "relations"} \subseteq DOMAIN kg_json)
    \/ \E id \in ListedIds : ~Conforms(id)

\* perturb has returned its graph and mapping
Returned == pc \in {"done", "emit", "end"} \/ (pc = "error" /\ Executed("save"))

\* C11: on malformed input (a missing entities or relations key, or an entity
\* identifier that is not prefix + integer) the pipeline stops with an error
\* before a perturbed graph or mapping is produced or written.
C11_MalformedIsFatal ==
    Malformed => (~Returned /\ perturbed_json = NoJson /\ written = {})

InputRelations == Range(Get(kg_json, "relations", <<>>))

\* a relation of the input that names an identifier no listed entity has
StrayRelations == {r \in InputRelations : ~({r.source, r.target} \subseteq ListedIds)}

\* the identifiers the output may hold: the listed and the minted entities,
\* under the identifiers reassignment gave them
LegitOutIds == {MapGet(entity_mapping, id) : id \in ListedIds \cup Range(minted)}

\* C12: when a relation of the input names an identifier that no listed
\* entity has, the pipeline fails or drops that relation: no step leaves a
\* relation dangling, and a returned output holds no image of that relation
\* and no entity other than the listed and the minted ones.
C12_StrayEndpoint ==
    StrayRelations # {} =>
        /\ NoDangling(G)
        /\ Returned =>
              /\ OutputIntact
              /\ OutIds \subseteq LegitOutIds
              /\ \A r \in StrayRelations :
                    ~\E i \in DOMAIN perturbed_json.relations :
                        /\ perturbed_json.relations[i].source = MapGet(entity_mapping, r.source)
                        /\ perturbed_json.relations[i].target = MapGet(entity_mapping, r.target)
                        /\ perturbed_json.relations[i].type = r.type

\* ---- claims about the content passes
ContentPasses == {"rename_entities", "rename_relations", "perturb_entities"}

\* C13: a collaborator that raises for one entity or relation does not abort
\* the content pass: no run ends in an error at a content pass, and perturb
\* goes on to return the graph and the mapping.
C13_CollaboratorFailureSkipped ==
    pc = "error" => trace[Len(trace)] \notin ContentPasses

\* ---- claims about runs in one process
\* an operator of the current run has drawn from the generator
Drew ==
    /\ pc \notin {"seed", "load", "error"}
    /\ Executed("remove_entities") \/ Executed("remove_edges") \/ Executed("add_edges")

\* C14: a pipeline run is isolated from what ran before it in the process:
\* the generator its operators drew from is the one its own configuration
\* seeds, or an unseeded one, and never a generator state left by an earlier
\* run or by an earlier emission of alignment files.
C14_RunsIsolated ==
    (Drew /\ ~Executed("emit")) => rngSeed = config.seed

\* the identifiers of a graph, and the endpoints and key of each relation
GraphStructure(g) ==
    [entities  |-> Range(NodeIds(g)),
     relations |-> [i \in DOMAIN Edges(g) |->
                       <<Edges(g)[i].src, Edges(g)[i].tgt, Edges(g)[i].key>>]]

\* C15: the content passes leave the identifier bookkeeping as reassignment
\* left it: a step of rename-entities, rename-relations or
\* perturb-entity-descriptions changes neither the set of entity identifiers,
\* nor the endpoints or the number of the relations, nor the Entity Mapping,
\* and the output perturb returns has the entities and relations of that graph.
C15_ContentKeepsBookkeeping ==
    [][/\ pc \in ContentPasses =>
            /\ GraphStructure(G') = GraphStructure(G)
            /\ entity_mapping' = entity_mapping
       /\ pc = "to_json" =>
            /\ Structure(perturbed_json') =
                  [entities  |-> NodeIds(G),
                   relations |-> [i \in DOMAIN Edges(G) |->
                                     <<Edges(G)[i].src, Edges(G)[i].tgt>>]]
            /\ entity_mapping' = entity_mapping]_vars

\* the three passes ran and wrote a name, a relation type and a description
C15_Witness ==
    /\ pc = "done"
    /\ ContentPasses \subseteq Range(trace)
    /\ entity_mapping # <<>>
    /\ \E i \in DOMAIN perturbed_json.entities :
          /\ "description" \in DOMAIN perturbed_json.entities[i]
          /\ perturbed_json.entities[i].name = Str("x")
    /\ \E i \in DOMAIN perturbed_json.relations : perturbed_json.relations[i].type = "x"

\* ---- claims about the operators, one step each
\* the nodes of g2 that come after the nodes of g
NewNodes(g, g2) == {g2[i] : i \in (Len(g) + 1)..Len(g2)}

\* g2 is g with n entities appended: fresh, distinct, typed RandomEntity and
\* without relations, the entities and relations of g being as they were
AddedExactly(g, g2, n) ==
    /\ Len(g2) = Len(g) + n
    /\ SubSeq(g2, 1, Len(g)) = g
    /\ Cardinality(Range(NodeIds(g2))) = Len(g2)
    /\ \A nd \in NewNodes(g, g2) :
          /\ ~HasNode(g, nd.id)
          /\ nd.attrs = [type |-> "RandomEntity"]
          /\ nd.adj = <<>>

\* C16: add-entities(n) adds exactly n entities with pairwise distinct
\* identifiers that the graph did not hold, each of type RandomEntity and
\* without a relation, leaves the entities and relations it found unchanged,
\* and returns the set of all n added identifiers.
C16_AddEntities ==
    [][(pc = "add_entities" /\ config.add_entities # 0) =>
          /\ AddedExactly(G, G', config.add_entities)
          /\ added_entities' = {nd.id : nd \in NewNodes(G, G')}]_vars

\* g2 is g without the entities rem and without the relations that touch
\* one of them, every other entity and relation being as it was
RemovedExactly(g, g2, rem) ==
    /\ rem \subseteq Range(NodeIds(g))
    /\ NodeIds(g2) = SelectSeq(NodeIds(g), LAMBDA x : x \notin rem)
    /\ \A id \in Range(NodeIds(g2)) : NodeAttrs(g2, id) = NodeAttrs(g, id)
    /\ Edges(g2) = SelectSeq(Edges(g), LAMBDA e : e.src \notin rem /\ e.tgt \notin rem)

\* C17: remove-entities(n) deletes exactly min(n, |entities|) distinct
\* entities and every relation with a deleted source or target, returns
\* exactly the set of deleted identifiers, and leaves every other entity and
\* every relation between two remaining entities unchanged.
C17_RemoveEntities ==
    [][(pc = "remove_entities" /\ config.remove_entities # 0) =>
          /\ pc' # "error"
          /\ Cardinality(removed_entities') = Min(config.remove_entities, Len(G))
          /\ Len(G') = Len(G) - Min(config.remove_entities, Len(G))
          /\ RemovedExactly(G, G', removed_entities')]_vars

\* one of three entities was removed: a relation that touched it is gone and
\* a relation between the two others is still there
C17_Witness ==
    /\ pc = "add_entities"
    /\ InputCount = 3
    /\ Cardinality(removed_entities) = 1
    /\ \E i \in DOMAIN kg_json.relations :
          kg_json.relations[i].source \in removed_entities
    /\ Edges(G) # <<>>

\* the relations of g as (source, target, type and attributes), in order
Relations(g) ==
    LET es == Edges(g)
    IN  [i \in DOMAIN es |-> [src |-> es[i].src, tgt |-> es[i].tgt, data |-> es[i].data]]

\* the relations rs with their endpoints rewritten through m
Rewired(rs, m) ==
    [i \in DOMAIN rs |->
        [src |-> MapGet(m, rs[i].src), tgt |-> MapGet(m, rs[i].tgt), data |-> rs[i].data]]

Count(sq, x) == Cardinality({i \in DOMAIN sq : sq[i] = x})

\* the same elements, each as many times
SameBag(a, b) ==
    /\ Len(a) = Len(b)
    /\ \A x \in Range(a) \cup Range(b) : Count(a, x) = Count(b, x)

\* C18: reassignment loses and merges no relation: the relations after it
\* are, counted with multiplicity, the relations before it with source and
\* target rewritten through the Entity Mapping (identity where it has no
\* entry) and type and attributes kept; for input identifiers e1..eN, which
\* are the inputs of this specification, both
\* rewritten endpoints of every relation are in the graph, so the branch that
\* drops a relation is never taken.
C18_RewiresRelations ==
    [][pc = "reassign" =>
          LET before == Rewired(Relations(G), entity_mapping')
              after  == Relations(G')
          IN  /\ SameBag(after, before)
              /\ \A e \in Range(before) : HasNode(G', e.src) /\ HasNode(G', e.tgt)]_vars

\* reassignment rewired two parallel relations between survivors and a
\* relation that touches a minted entity
C18_Witness ==
    /\ pc = "rename_entities"
    /\ \E i, j \in DOMAIN Edges(G) :
          /\ i # j
          /\ Edges(G)[i].src = Edges(G)[j].src
          /\ Edges(G)[i].tgt = Edges(G)[j].tgt
          /\ Edges(G)[i].src \in MapValues(entity_mapping)
    /\ \E e \in Range(Edges(G)) : e.src \in Range(minted) \/ e.tgt \in Range(minted)

C20_RemoveEdges ==
    [][(pc = "remove_edges" /\ config.remove_edges # 0) =>
          LET before == Edges(G)
              after  == Edges(G')
          IN  /\ pc' # "error"
              /\ NodeIds(G') = NodeIds(G)
              /\ \A id \in Range(NodeIds(G)) : NodeAttrs(G', id) = NodeAttrs(G, id)
              /\ Len(after) = Len(before) - Min(config.remove_edges, Len(before))
              /\ Range(after) \subseteq Range(before)
              /\ Cardinality(Range(after)) = Len(after)]_vars

\* one of two parallel relations was removed and the other one is left
C20_Witness ==
    /\ pc = "add_edges"
    /\ config.remove_edges = 1
    /\ Len(kg_json.relations) = 2
    /\ kg_json.relations[1].source = kg_json.relations[2].source
    /\ kg_json.relations[1].target = kg_json.relations[2].target
    /\ edgesBefore = 2
    /\ Len(Edges(G)) = 1

\* C21: add-edges(n) on a graph of at least 2 entities adds exactly n
\* relations, a pair drawn twice giving two parallel relations; each added
\* relation has type randomRelation and joins two entities that are in the
\* graph after the entity operators ran, never a removed one; the entities
\* and the relations that were there are unchanged.
C21_AddEdges ==
    [][(pc = "add_edges" /\ config.add_edges # 0 /\ Len(G) >= 2) =>
          LET before == Edges(G)
              after  == Edges(G')
              added  == Range(after) \ Range(before)
          IN  /\ pc' # "error"
              /\ Len(after) = Len(before) + config.add_edges
              /\ Cardinality(Range(after)) = Len(after)
              /\ Cardinality(added) = config.add_edges
              /\ Range(before) \subseteq Range(after)
              /\ NodeIds(G') = NodeIds(G)
              /\ \A id \in Range(NodeIds(G)) : NodeAttrs(G', id) = NodeAttrs(G, id)
              /\ \A e \in added :
                    /\ e.data = [type |-> "randomRelation"]
                    /\ {e.src, e.tgt} \subseteq Range(NodeIds(G))
                    /\ {e.src, e.tgt} \cap removed_entities = {}]_vars

\* after a removal, the same pair was drawn twice and gave two parallel
\* relations next to a relation of the input between the same two entities
C21_Witness ==
    /\ pc = "reassign"
    /\ config.add_edges = 2
    /\ removed_entities # {}
    /\ \E a, b \in addedEdges : a # b /\ a[1] = b[1] /\ a[2] = b[2] /\ 0 \notin {a[3], b[3]}

\* the entities the graph holds once both entity operators have run
EntitiesLeft == n_nodes - Cardinality(removed_entities) + Len(minted)

\* the run has gone through the add-edges statement of perturb
PastAddEdges ==
    pc \notin {"seed", "load", "remove_entities", "add_entities", "remove_edges", "add_edges"}

\* C22: when add_edges >= 1 and fewer than 2 entities are left after the
\* entity operators, the add-edges call fails and perturb ends in an error:
\* no perturbed graph and no mapping are returned and no file is written.
C22_AddEdgesFails ==
    (config.add_edges >= 1 /\ PastAddEdges /\ EntitiesLeft < 2) =>
        /\ pc = "error"
        /\ trace[Len(trace)] = "add_edges"
        /\ perturbed_json = NoJson
        /\ entity_mapping = <<>>
        /\ written = {}

\* one of two entities was removed, none was added, and add-edges failed
C22_Witness ==
    /\ pc = "error"
    /\ config.add_edges = 1
    /\ config.add_entities = 0
    /\ kg_json \in InputKGs
    /\ InputCount = 2
    /\ Cardinality(removed_entities) = 1
    /\ Len(G) = 1

\* ---- claims about what the content passes write
\* the field f of the attribute bag b is as it was in a, scalar or list
SameShape(a, b, f) ==
    (f \in DOMAIN a /\ f \in DOMAIN b) => a[f].kind = b[f].kind

\* every name and description of g2 has the shape it had in g
ShapeKept(g, g2) ==
    /\ NodeIds(g2) = NodeIds(g)
    /\ \A i \in DOMAIN g : \A f \in {"name", "description"} :
          SameShape(g[i].attrs, g2[i].attrs, f)

\* a list-valued name of g has in g2 the elements it had after the first
RestOfNamesKept(g, g2) ==
    \A i \in DOMAIN g :
        ("name" \in DOMAIN g[i].attrs /\ g[i].attrs.name.kind = "list"
            /\ g[i].attrs.name.v # <<>>) =>
           /\ Len(g2[i].attrs.name.v) = Len(g[i].attrs.name.v)
           /\ Tail(g2[i].attrs.name.v) = Tail(g[i].attrs.name.v)

\* C23 for rename-entities alone
RenameKeepsShape ==
    [][pc = "rename_entities" => (ShapeKept(G, G') /\ RestOfNamesKept(G, G'))]_vars

\* C23: a content pass keeps the shape of each field it writes: a name or
\* description that was scalar before rename-entities or
\* perturb-entity-descriptions is scalar after it, and one that was a list is
\* a list after it; rename-entities replaces only the first element of a
\* list-valued name.
C23_ShapePreserved ==
    [][/\ pc = "rename_entities" => (ShapeKept(G, G') /\ RestOfNamesKept(G, G'))
       /\ pc = "perturb_entities" => ShapeKept(G, G')]_vars

\* the step taken is the content pass st, and the configuration asked for it
Ran(st) == pc = st /\ trace' = Append(trace, st)

\* the collaborator returned a text for the item
Answered(a) == a \notin {"", NotAsked, Raised}

\* the name the attribute bag carries starts with the text t
NameIs(attrs, t) ==
    /\ "name" \in DOMAIN attrs
    /\ IF attrs.name.kind = "list"
       THEN attrs.name.v # <<>> /\ attrs.name.v[1] = t
       ELSE attrs.name.v = t

\* C24: when the collaborator returns an absent or empty result for an
\* entity or a relation, every attribute of that item stays as it was, and
\* the pass goes on: the items it returns a text for, before or after that
\* one, are written.
C24_EmptyResultSkips ==
    [][/\ Ran("rename_entities") =>
            \A i \in DOMAIN G :
                /\ answers'[i] = "" => G'[i] = G[i]
                /\ Answered(answers'[i]) => NameIs(G'[i].attrs, answers'[i])
       /\ Ran("rename_relations") =>
            /\ Len(Edges(G')) = Len(Edges(G))
            /\ \A i \in DOMAIN Edges(G) :
                  /\ answers'[i] = "" => Edges(G')[i] = Edges(G)[i]
                  /\ Answered(answers'[i]) => Edges(G')[i].data.type = answers'[i]
       /\ Ran("perturb_entities") =>
            \A i \in DOMAIN G :
                /\ answers'[i] = "" => G'[i] = G[i]
                /\ Answered(answers'[i]) =>
                      /\ "description" \in DOMAIN G'[i].attrs
                      /\ G'[i].attrs.description.v = <<answers'[i]>>]_vars

\* rename-entities got nothing for the first entity and a text for the
\* second: the first has its name, the second the text
C24_Witness ==
    /\ pc = "rename_relations"
    /\ answers = <<"", "x">>
    /\ NameIs(G[1].attrs, "a")
    /\ NameIs(G[2].attrs, "x")

\* the entity has no name, or an empty one
NoName(attrs) ==
    \/ "name" \notin DOMAIN attrs
    \/ attrs.name \in {Str(""), List(<<>>)}

\* an entity made by add-entities, or one without a non-empty name
Ineligible(nd) ==
    \/ ("type" \in DOMAIN nd.attrs /\ nd.attrs.type = "RandomEntity")
    \/ NoName(nd.attrs)

\* C25: no content pass touches an ineligible entity: rename-entities and
\* perturb-entity-descriptions never call the collaborator for an entity made
\* by add-entities (type RandomEntity) or for an entity without a non-empty
\* name, and leave its attributes exactly as they were.
C25_IneligibleUntouched ==
    [][(Ran("rename_entities") \/ Ran("perturb_entities")) =>
          \A i \in DOMAIN G :
              Ineligible(G[i]) => (answers'[i] = NotAsked /\ G'[i] = G[i])]_vars

\* perturb-entity-descriptions passed over an entity made by add-entities,
\* wrote the next one and passed over one with an empty name
C25_Witness ==
    /\ pc = "to_json"
    /\ Executed("rename_entities")
    /\ answers = <<NotAsked, "x", NotAsked>>
    /\ G[1].attrs = [type |-> "RandomEntity"]
    /\ "description" \in DOMAIN G[2].attrs
    /\ NoName(G[3].attrs) /\ "name" \in DOMAIN G[3].attrs

\* ---- claims about the alignment files
\* the three pair files have been written
PairsWritten == PairFiles \subseteq written

\* the pair (A-1, B-1) for the mapping entry (eA, eB)
PairOf(entry) ==
    CHOOSE ab \in (IdNums \cup {-1}) \X (IdNums \cup {-1}) :
        entry = <<EId(ab[1] + 1), EId(ab[2] + 1)>>

\* C26: the emission of the alignment files splits the aligned pairs into a
\* partition: ref_ent_ids holds the pair (A-1, B-1) of every entry (eA, eB)
\* of the Entity Mapping exactly once and nothing else, ref_pairs is its
\* first int(0.57 * count) pairs and sup_pairs the rest, so the two are
\* disjoint and together make ref_ent_ids.
C26_AlignmentPartition ==
    PairsWritten =>
        LET all == alignment.ref_ent_ids
            ref == alignment.ref_pairs
            sup == alignment.sup_pairs
        IN  /\ Len(all) = Len(entity_mapping)
            /\ Cardinality(Range(all)) = Len(all)
            /\ \A i \in DOMAIN entity_mapping :
                  (\E A, B \in IdNums : entity_mapping[i] = <<EId(A), EId(B)>>) =>
                      Count(all, PairOf(entity_mapping[i])) = 1
            /\ 100 * Len(ref) <= 57 * Len(all)
            /\ 57 * Len(all) < 100 * (Len(ref) + 1)
            /\ all = ref \o sup
            /\ Range(ref) \cap Range(sup) = {}
            /\ Range(ref) \cup Range(sup) = Range(all)

\* three pairs were shuffled out of their order and split 1 and 2
C26_Witness ==
    /\ pc = "end"
    /\ PairsWritten
    /\ Len(alignment.ref_pairs) = 1
    /\ Len(alignment.sup_pairs) = 2
    /\ \A i \in DOMAIN entity_mapping : Conforms(entity_mapping[i][1])
    /\ alignment.ref_ent_ids # AlignedPairs(entity_mapping)

\* the input is well-formed: entities e1..eN and relations between them
WellFormed == kg_json \in InputKGs

\* every identifier the emission converts has the form e<integer>
AllConform ==
    /\ \A id \in EntityIds(perturbed_json) \cup Endpoints(perturbed_json) : Conforms(id)
    /\ \A id \in MapKeys(entity_mapping) \cup MapValues(entity_mapping) : Conforms(id)

\* C27: on well-formed input the perturb-and-align pipeline completes under
\* every configuration: every entity identifier and relation endpoint of the
\* perturbed KG and every key and value of the Entity Mapping has the form
\* e<integer>, also when add_entities >= 1, and the emission of the alignment
\* files never fails on the conversion of an identifier.
C27_AlignCompletes ==
    WellFormed =>
        /\ pc \in {"done", "emit", "end"} => AllConform
        /\ Executed("emit") => pc = "end"

\* ---- claims about inputs with any identifiers e<k>
\* the entities of g that are neither removed nor made by add-entities
SurvivorsOf(g) ==
    {id \in Range(NodeIds(g)) : id \notin removed_entities /\ id \notin Range(minted)}

\* C28: reassignment loses and merges no entity, whatever distinct integers
\* the original identifiers e<k> carry: after it the graph has as many
\* entities as before, every survivor has its own new entity with the
\* attribute bag the survivor had, and every relation is kept with its
\* endpoints rewritten through the mapping.
C28_GapIdsKept ==
    [][pc = "reassign" =>
          LET m == entity_mapping'
              before == Rewired(Relations(G), m)
              after  == Relations(G')
          IN  /\ Len(G') = Len(G)
              /\ MapKeys(m) = SurvivorsOf(G)
              /\ \A s, t \in SurvivorsOf(G) : s # t => MapGet(m, s) # MapGet(m, t)
              /\ \A s \in SurvivorsOf(G) :
                    /\ HasNode(G', MapGet(m, s))
                    /\ NodeAttrs(G', MapGet(m, s)) = NodeAttrs(G, s)
              /\ SameBag(after, before)]_vars

\* ---- claims about the caller's objects
\* C29: perturb does not modify the KG object it is given: under any
\* configuration, content passes and list-valued names included, no step of
\* perturb changes an identifier or an attribute value of an entity or a
\* relation of the caller's kg_json.
C29_InputUntouched == [][kg_json' = kg_json]_vars

\* ---- claims about a configuration that asks for nothing
\* the four operator counts are 0 or absent and the content toggles false
NothingAsked ==
    /\ config.remove_entities = 0 /\ config.add_entities = 0
    /\ config.remove_edges = 0 /\ config.add_edges = 0
    /\ ~config.llm_rename_entities /\ ~config.llm_rename_relations
    /\ ~config.llm_perturb_entities

\* e<N+i> for the identifier of the i-th entity of the input
Renumbered(id) ==
    EId(InputCount + (CHOOSE i \in DOMAIN kg_json.entities : kg_json.entities[i].id = id))

====
